---- MODULE Spec2Model ----
(***************************************************************************)
(* Model of mrner/build_trie.py: read_mr_entities (the entity loader) and  *)
(* build_trie (the trie builder).                                          *)
(*                                                                         *)
(* The heap of Node tuples is modelled by node identities 0, 1, 2, ...:    *)
(* node n has the list ids[n] and the dict children[n]; a Node([], {})     *)
(* expression allocates the next unused identity.  Strings that the code   *)
(* looks into (lines, fields, names) are sequences of one-character        *)
(* strings; tokens and ids handed to build_trie directly are opaque.       *)
(***************************************************************************)
EXTENDS Integers, Sequences, FiniteSets

VARIABLES
    entities,     \* build_trie's argument / read_mr_entities' list `entities`
    ids,          \* ids[n]: the list Node.ids of node n
    children,     \* children[n]: the dict Node.children of node n (token -> node)
    node_count,   \* build_trie's counter node_count (0 while build_trie is not called)
    token_count,  \* build_trie's counter token_count
    i,            \* number of entities the outer for loop has taken so far
    j,            \* number of tokens of the current entity consumed so far
    node,         \* build_trie's local `node`
    trace,        \* trace[k]: the values `node` took at lines 96/100 for entity k
    f,            \* the lines of the opened file, each with its line ending
    pos,          \* file position: number of lines already read from f
    pc            \* position in the program

vars == <<entities, ids, children, node_count, token_count, i, j, node, trace,
          f, pos, pc>>

\* ------------------------------------------------------------------ bounds
MaxEntities == 2
MaxTokens == 2

\* ------------------------------------------------------------ build_trie
Tokens == {"North", "Sea"}
Ids == {"1001", "1002"}

SeqsUpTo(S, n) == UNION {[1..m -> S] : m \in 0..n}

Entity == [tokens : SeqsUpTo(Tokens, MaxTokens), id : Ids]

\* the root node `trie` of line 85
trie == 0

\* Node([], {}) : the next unused node identity
NewNode == Cardinality(DOMAIN ids)

EmptyDict == [t \in {} |-> 0]

readVars == <<f, pos>>
trieVars == <<ids, children, node_count, token_count, i, j, node, trace>>

\* build_trie is called with a list of entities (lines 81-87)
Init ==
    /\ entities \in SeqsUpTo(Entity, MaxEntities)
    /\ ids = [n \in {trie} |-> <<>>]
    /\ children = [n \in {trie} |-> EmptyDict]
    /\ node_count = 1
    /\ token_count = 0
    /\ i = 0
    /\ j = 0
    /\ node = trie
    /\ trace = <<>>
    /\ f = <<>>
    /\ pos = 0
    /\ pc = "for"

\* lines 89-91: the outer loop takes the next entity
StartEntity ==
    /\ pc = "for"
    /\ i < Len(entities)
    /\ i' = i + 1
    /\ node' = trie
    /\ token_count' = token_count + Len(entities[i + 1].tokens)
    /\ j' = 0
    /\ trace' = Append(trace, <<>>)
    /\ pc' = "token"
    /\ UNCHANGED <<entities, ids, children, node_count, readVars>>

\* lines 98-99: node.children[token] = new_node, where new_node has no ids
\* and no children when it is newly made
Link(new_node, token) ==
    /\ ids' = [n \in DOMAIN ids \cup {new_node} |->
                 IF n \in DOMAIN ids THEN ids[n] ELSE <<>>]
    /\ children' = [n \in DOMAIN children \cup {new_node} |->
                 IF n = node
                 THEN [t \in DOMAIN children[n] \cup {token} |->
                         IF t = token THEN new_node ELSE children[n][t]]
                 ELSE IF n \in DOMAIN children THEN children[n] ELSE EmptyDict]

\* StepExisting without the lookup: a new node replaces the existing child
StepOverwrite ==
    /\ pc = "token"
    /\ j < Len(entities[i].tokens)
    /\ LET token == entities[i].tokens[j + 1]
           new_node == NewNode IN
        /\ token \in DOMAIN children[node]
        /\ Link(new_node, token)
        /\ node' = new_node
        /\ trace' = [trace EXCEPT ![i] = Append(@, new_node)]
    /\ node_count' = node_count + 1
    /\ j' = j + 1
    /\ UNCHANGED <<entities, token_count, i, pc, readVars>>

\* lines 93-96: the token is a key of node.children, descend
StepExisting ==
    /\ pc = "token"
    /\ j < Len(entities[i].tokens)
    /\ LET token == entities[i].tokens[j + 1] IN
        /\ token \in DOMAIN children[node]
        /\ node' = children[node][token]
        /\ trace' = [trace EXCEPT ![i] = Append(@, children[node][token])]
    /\ j' = j + 1
    /\ UNCHANGED <<entities, ids, children, node_count, token_count, i, pc, readVars>>

\* StepCreate without line 100 (node = new_node)
StepCreateNoDescend ==
    /\ pc = "token"
    /\ j < Len(entities[i].tokens)
    /\ LET token == entities[i].tokens[j + 1] IN
        /\ token \notin DOMAIN children[node]
        /\ Link(NewNode, token)
        /\ node' = node
        /\ trace' = [trace EXCEPT ![i] = Append(@, node)]
    /\ node_count' = node_count + 1
    /\ j' = j + 1
    /\ UNCHANGED <<entities, token_count, i, pc, readVars>>

\* StepCreate with one Node([], {}) object made once and reused as every new_node
StepCreateShared ==
    /\ pc = "token"
    /\ j < Len(entities[i].tokens)
    /\ LET token == entities[i].tokens[j + 1] IN
        /\ token \notin DOMAIN children[node]
        /\ Link(1, token)
        /\ node' = 1
        /\ trace' = [trace EXCEPT ![i] = Append(@, 1)]
    /\ node_count' = node_count + 1
    /\ j' = j + 1
    /\ UNCHANGED <<entities, token_count, i, pc, readVars>>

\* StepCreate without line 101 (node_count += 1)
StepCreateNoCount ==
    /\ pc = "token"
    /\ j < Len(entities[i].tokens)
    /\ LET token == entities[i].tokens[j + 1] IN
        /\ token \notin DOMAIN children[node]
        /\ Link(NewNode, token)
        /\ node' = NewNode
        /\ trace' = [trace EXCEPT ![i] = Append(@, NewNode)]
    /\ j' = j + 1
    /\ UNCHANGED <<entities, node_count, token_count, i, pc, readVars>>

\* lines 93-101: KeyError, a new node is made the child and descended into
StepCreate ==
    /\ pc = "token"
    /\ j < Len(entities[i].tokens)
    /\ LET token == entities[i].tokens[j + 1]
           new_node == NewNode IN
        /\ token \notin DOMAIN children[node]
        /\ Link(new_node, token)
        /\ node' = new_node
        /\ trace' = [trace EXCEPT ![i] = Append(@, new_node)]
    /\ node_count' = node_count + 1
    /\ j' = j + 1
    /\ UNCHANGED <<entities, token_count, i, pc, readVars>>

Range(s) == {s[k] : k \in DOMAIN s}

\* AppendId with the id put at the front of the list (ids.insert(0, id))
AppendIdFront ==
    /\ pc = "token"
    /\ j = Len(entities[i].tokens)
    /\ ids' = [ids EXCEPT ![node] = <<entities[i].id>> \o @]
    /\ pc' = "for"
    /\ UNCHANGED <<entities, children, node_count, token_count, i, j, node, trace, readVars>>

\* AppendId that keeps ids free of duplicates (if id not in node.ids)
AppendIdUnique ==
    /\ pc = "token"
    /\ j = Len(entities[i].tokens)
    /\ ids' = [ids EXCEPT ![node] =
                 IF entities[i].id \in Range(@) THEN @ ELSE Append(@, entities[i].id)]
    /\ pc' = "for"
    /\ UNCHANGED <<entities, children, node_count, token_count, i, j, node, trace, readVars>>

\* line 103: all tokens consumed, the id is appended to the node reached
AppendId ==
    /\ pc = "token"
    /\ j = Len(entities[i].tokens)
    /\ ids' = [ids EXCEPT ![node] = Append(@, entities[i].id)]
    /\ pc' = "for"
    /\ UNCHANGED <<entities, children, node_count, token_count, i, j, node, trace, readVars>>

\* lines 105-107: the loop is exhausted, the trie is returned
Return ==
    /\ pc = "for"
    /\ i = Len(entities)
    /\ pc' = "done"
    /\ UNCHANGED <<entities, trieVars, readVars>>

Next == StartEntity \/ StepExisting \/ StepCreate \/ AppendId \/ Return

Spec == Init /\ [][Next]_vars

\* ------------------------------------------------------ read_mr_entities
MaxLines == 3
MaxNameLen == 4

Tab == "\t"
NL == "\n"

Upper == {"A", "B", "C", "D", "E", "F", "G", "H", "I", "J", "K", "L", "M",
          "N", "O", "P", "Q", "R", "S", "T", "U", "V", "W", "X", "Y", "Z"}
Digit == {"0", "1", "2", "3", "4", "5", "6", "7", "8", "9"}
Whitespace == {" ", Tab, NL}

ICES_Statistical_Rectangles ==
    <<"I", "C", "E", "S", " ", "S", "t", "a", "t", "i", "s", "t", "i", "c", "a", "l",
      " ", "R", "e", "c", "t", "a", "n", "g", "l", "e", "s">>
FAO_Subdivisions ==
    <<"F", "A", "O", " ", "S", "u", "b", "d", "i", "v", "i", "s", "i", "o", "n", "s">>
NAFO_Area == <<"N", "A", "F", "O", " ", "A", "r", "e", "a">>
ICES_Areas == <<"I", "C", "E", "S", " ", "A", "r", "e", "a", "s">>

SKIPPED_PLACE_TYPES ==
    {ICES_Statistical_Rectangles, FAO_Subdivisions, NAFO_Area, ICES_Areas}

SKIPPED_GEO_NAMES == {<<"A", "s">>, <<"O", "f">>}

\* str.rstrip(ch)
RECURSIVE RStrip(_, _)
RStrip(s, ch) ==
    IF s # <<>> /\ s[Len(s)] = ch THEN RStrip(SubSeq(s, 1, Len(s) - 1), ch) ELSE s

\* str.split(sep): the pieces of s between the occurrences of sep, from
\* position p on, cur being the piece collected so far
RECURSIVE SplitFrom(_, _, _, _)
SplitFrom(s, sep, p, cur) ==
    IF p > Len(s) THEN <<cur>>
    ELSE IF s[p] = sep THEN <<cur>> \o SplitFrom(s, sep, p + 1, <<>>)
         ELSE SplitFrom(s, sep, p + 1, Append(cur, s[p]))

Split(s, sep) == SplitFrom(s, sep, 1, <<>>)

\* str.split(): the runs of non-whitespace characters of s
RECURSIVE SplitWsFrom(_, _, _)
SplitWsFrom(s, p, cur) ==
    LET piece == IF cur = <<>> THEN <<>> ELSE <<cur>> IN
    IF p > Len(s) THEN piece
    ELSE IF s[p] \in Whitespace THEN piece \o SplitWsFrom(s, p + 1, <<>>)
         ELSE SplitWsFrom(s, p + 1, Append(cur, s[p]))

SplitWs(s) == SplitWsFrom(s, 1, <<>>)

\* The matcher of SKIPPED_GEO_NAMES_PAT = ^[A-Z]+[0-9][A-Z0-9]*$ run over s
\* from position p in state q: 0 at ^, 1 inside [A-Z]+, 2 after [0-9] and
\* inside [A-Z0-9]*, 3 after the one final newline that $ lets through,
\* Failed otherwise.
Failed == 0 - 1

RECURSIVE MatchFrom(_, _, _)
MatchFrom(s, p, q) ==
    IF p > Len(s) THEN q
    ELSE LET c == s[p] IN
         MatchFrom(s, p + 1,
            CASE q = 0 -> IF c \in Upper THEN 1 ELSE Failed
              [] q = 1 -> IF c \in Upper THEN 1
                          ELSE IF c \in Digit THEN 2 ELSE Failed
              [] q = 2 -> IF c \in Upper \cup Digit THEN 2
                          ELSE IF c = NL /\ p = Len(s) THEN 3 ELSE Failed
              [] OTHER -> Failed)

\* the pattern with [A-Z]* in place of [A-Z]+
PatMatchStar(s) == MatchFrom(s, 1, 1) \in {2, 3}

\* skipped_geo_names_re.match(geo_name)
PatMatch(s) == MatchFrom(s, 1, 0) \in {2, 3}

\* the input files -------------------------------------------------------
Join(fields) ==
    LET RECURSIVE J(_)
        J(k) == IF k = 1 THEN fields[1] ELSE J(k - 1) \o <<Tab>> \o fields[k]
    IN  (IF fields = <<>> THEN <<>> ELSE J(Len(fields))) \o <<NL>>

Sea == <<"S", "e", "a">>
en == <<"e", "n">>

Header ==
    Join(<< <<"M", "R", "G", "I", "D">>, <<"G", "e", "o", "N", "a", "m", "e">>,
            <<"L", "a", "n", "g", "u", "a", "g", "e">>,
            <<"P", "l", "a", "c", "e", "t", "y", "p", "e">> >>)

LineSet ==
    { Join(<< <<"1", "0", "0", "1">>, <<"N", "o", "r", "t", "h", " ", "S", "e", "a">>, en, Sea >>),
      Join(<< <<"1", "0", "0", "2">>, <<"N", "o", "r", "t", "h", " ", "S", "e", "a">>, en, Sea >>),
      Join(<< <<"1", "0", "0", "3">>, <<"H", "2">>, en, Sea >>),
      Join(<< <<"1", "0", "0", "4">>, <<"7", "2", "M", "7">>, en, Sea >>),
      Join(<< <<"1", "0", "0", "5">>, <<"7", "2", "M", "7">>, en, FAO_Subdivisions >>),
      Join(<< <<"1", "0", "0", "6">>, <<"A", "s">>, en, Sea >>),
      Join(<< <<"1", "0", "0", "7">>, <<" ">>, en, Sea >>),
      Join(<< <<"1", "0", "0", "8">>, <<>>, en, Sea >>),
      Join(<< <<"1", "0", "0", "9">>, <<"N", "o", "r", "t", "h">>, en >>),
      Join(<< <<"1", "0", "1", "0">>, <<"N", "o", "r", "t", "h">>, en, Sea, <<"x">> >>),
      Join(<<>>) }

NameChars == {"H", "M", "2", "7", "s", " "}

\* a last line that the file ends without a line ending
Unterminated(line) == SubSeq(line, 1, Len(line) - 1)

\* files of a few of the lines above, files of a header and one record with
\* an arbitrary short name, and files whose last line has no line ending
Files ==
    SeqsUpTo(LineSet, MaxLines) \cup
    { <<Header, Join(<< <<"7">>, name, en, pt >>)>> :
        name \in SeqsUpTo(NameChars, MaxNameLen), pt \in {Sea, NAFO_Area} } \cup
    { <<Header, Unterminated(line)>> : line \in LineSet \ {Join(<<>>)} }

\* lines 42-47: read_mr_entities is called on a file
InitRead ==
    /\ entities = <<>>
    /\ f \in Files
    /\ pos = 0
    /\ pc = "readline"
    /\ ids = <<>>
    /\ children = <<>>
    /\ node_count = 0
    /\ token_count = 0
    /\ i = 0
    /\ j = 0
    /\ node = trie
    /\ trace = <<>>

\* the header is not skipped
KeepHeader ==
    /\ pc = "readline"
    /\ pc' = "lines"
    /\ UNCHANGED <<entities, pos, f, trieVars>>

\* line 49: f.readline() skips the header line (nothing to skip in an empty file)
ReadHeader ==
    /\ pc = "readline"
    /\ pos' = IF Len(f) = 0 THEN 0 ELSE 1
    /\ pc' = "lines"
    /\ UNCHANGED <<entities, f, trieVars>>

\* lines 51-53: the fields of the next line of the file
Fields == Split(RStrip(f[pos + 1], NL), Tab)

\* an ill-formed line ends the loop
IllFormedBreak ==
    /\ pc = "lines"
    /\ pos < Len(f)
    /\ Len(Fields) # 4
    /\ pos' = pos + 1
    /\ pc' = "read_done"
    /\ UNCHANGED <<entities, f, trieVars>>

\* lines 50-56: the unpacking of the fields fails, the line is passed over
IllFormed ==
    /\ pc = "lines"
    /\ pos < Len(f)
    /\ Len(Fields) # 4
    /\ pos' = pos + 1
    /\ UNCHANGED <<entities, f, pc, trieVars>>

\* lines 58-60: the condition under which a record is skipped
Skipped(geo_name, place_type) ==
    \/ place_type \in SKIPPED_PLACE_TYPES
    \/ geo_name \in SKIPPED_GEO_NAMES
    \/ PatMatch(geo_name)

\* lines 50-62: a record that a rule excludes is passed over
Skipping ==
    /\ pc = "lines"
    /\ pos < Len(f)
    /\ Len(Fields) = 4
    /\ Skipped(Fields[2], Fields[4])
    /\ pos' = pos + 1
    /\ UNCHANGED <<entities, f, pc, trieVars>>

\* lines 50-67: any other record is tokenized and appended
AppendEntity ==
    /\ pc = "lines"
    /\ pos < Len(f)
    /\ Len(Fields) = 4
    /\ ~Skipped(Fields[2], Fields[4])
    /\ entities' = Append(entities, [tokens |-> SplitWs(Fields[2]), id |-> Fields[1]])
    /\ pos' = pos + 1
    /\ UNCHANGED <<f, pc, trieVars>>

\* lines 69-70: the file is exhausted, the entities are returned
ReturnEntities ==
    /\ pc = "lines"
    /\ pos = Len(f)
    /\ pc' = "read_done"
    /\ UNCHANGED <<entities, f, pos, trieVars>>

NextRead == ReadHeader \/ IllFormed \/ Skipping \/ AppendEntity \/ ReturnEntities

SpecRead == InitRead /\ [][NextRead]_vars

\* ------------------------------------------------ properties of build_trie
NoNode == 0 - 1

Nodes == DOMAIN ids

\* following children from node n by the keys of path; NoNode when a key is missing
RECURSIVE Walk(_, _)
Walk(n, path) ==
    IF path = <<>> THEN n
    ELSE IF n \in DOMAIN children /\ Head(path) \in DOMAIN children[n]
         THEN Walk(children[n][Head(path)], Tail(path))
         ELSE NoNode

\* the key paths of length at most depth that lead from node n to some node
RECURSIVE PathsFrom(_, _)
PathsFrom(n, depth) ==
    {<<>>} \cup
    (IF depth = 0 \/ n \notin DOMAIN children THEN {}
     ELSE UNION {{<<t>> \o p : p \in PathsFrom(children[n][t], depth - 1)} :
                   t \in DOMAIN children[n]})

NodePaths == PathsFrom(trie, Cardinality(Nodes))

\* the entities whose id has been placed
Processed == SubSeq(entities, 1, IF pc = "token" THEN i - 1 ELSE i)

Prefixes(s) == {SubSeq(s, 1, m) : m \in 0..Len(s)}

\* the ids of the entities of es whose token sequence is path, in the order of es
RECURSIVE IdsOf(_, _)
IdsOf(es, path) ==
    IF es = <<>> THEN <<>>
    ELSE (IF Head(es).tokens = path THEN <<Head(es).id>> ELSE <<>>)
         \o IdsOf(Tail(es), path)

RECURSIVE SumLen(_)
SumLen(S) ==
    IF S = {} THEN 0
    ELSE LET n == CHOOSE x \in S : TRUE IN Len(ids[n]) + SumLen(S \ {n})

\* number of positions of the sequence s that hold x
Count(s, x) == Cardinality({k \in DOMAIN s : s[k] = x})

\* entity k has the token sequence of an entity that comes before it
Dup(k) == \E m \in 1..(k - 1) : entities[m].tokens = entities[k].tokens

\* C1: when build_trie has returned, every entity's tokens lead from the root
\* through an existing node at every step, and the ids of the node reached
\* after the last token contain the entity's id.
C1_PathAndId ==
    pc = "done" =>
        \A k \in 1..Len(entities) :
            /\ \A p \in Prefixes(entities[k].tokens) : Walk(trie, p) \in Nodes
            /\ entities[k].id \in Range(ids[Walk(trie, entities[k].tokens)])

C1_Witness ==
    /\ pc = "done"
    /\ \E k \in 1..Len(entities) : Len(entities[k].tokens) >= 2
    /\ Len(entities) >= 2

\* C2: the ids list of every node is the ids of the entities placed so far
\* whose token sequence is the node's key path, in input order; so two
\* entities with the same tokens have their ids in one list, the earlier first.
C2_IdsInInputOrder ==
    /\ \A p \in NodePaths : ids[Walk(trie, p)] = IdsOf(Processed, p)
    /\ pc = "done" =>
         \A a, b \in 1..Len(entities) :
            a < b /\ entities[a].tokens = entities[b].tokens =>
              LET l == ids[Walk(trie, entities[a].tokens)] IN
                \E x, y \in DOMAIN l :
                    x < y /\ l[x] = entities[a].id /\ l[y] = entities[b].id

C2_Witness ==
    /\ pc = "done"
    /\ \E a, b \in 1..Len(entities) :
          /\ a < b
          /\ entities[a].tokens = entities[b].tokens
          /\ entities[a].tokens # <<>>
          /\ entities[a].id # entities[b].id

\* C3: the structure is a tree at every step: the root is no one's child,
\* every other node is the child of exactly one (parent, key) and never of
\* itself, every node is reached from the root by exactly one key path, and
\* two insertions pass through the same node at depth m exactly when their
\* first m tokens agree.
C3_Tree ==
    /\ \A n \in Nodes :
          LET InEdges == {e \in {<<q, t>> : q \in Nodes, t \in Tokens} :
                            e[2] \in DOMAIN children[e[1]]
                            /\ children[e[1]][e[2]] = n} IN
            /\ Cardinality(InEdges) = (IF n = trie THEN 0 ELSE 1)
            /\ \A e \in InEdges : e[1] # n
    /\ \A n \in Nodes : Cardinality({p \in NodePaths : Walk(trie, p) = n}) = 1
    /\ \A a, b \in DOMAIN trace :
          \A m \in DOMAIN trace[a] \cap DOMAIN trace[b] :
              (SubSeq(entities[a].tokens, 1, m) = SubSeq(entities[b].tokens, 1, m))
                  <=> (trace[a][m] = trace[b][m])

C3_Witness ==
    /\ pc = "for"
    /\ \E a, b \in 1..i :
          /\ Len(entities[a].tokens) >= 2
          /\ Len(entities[b].tokens) >= 2
          /\ entities[a].tokens[1] = entities[b].tokens[1]
          /\ entities[a].tokens[2] # entities[b].tokens[2]

\* C4: the number of id entries in the whole trie is the number of entities
\* processed, and the number of input entities at the end.
C4_OnePlacementEach ==
    /\ SumLen(Nodes) = Len(Processed)
    /\ pc = "done" => SumLen(Nodes) = Len(entities)

C4_Witness ==
    /\ pc = "done"
    /\ \E a, b \in 1..Len(entities) : a # b /\ entities[a] = entities[b]

\* C9: while an entity is processed whose token sequence is that of an
\* earlier entity, no node is created and no children mapping changes; the
\* only change of the trie is its id appended to the node its tokens lead to.
C9_Step ==
    \/ (pc = "for" /\ i < Len(entities) /\ Dup(i + 1))
    \/ (pc = "token" /\ Dup(i))
    => /\ children' = children
       /\ node_count' = node_count
       /\ DOMAIN ids' = DOMAIN ids
       /\ \/ ids' = ids
          \/ /\ pc' = "for"
             /\ Walk(trie, entities[i].tokens) \in Nodes
             /\ ids' = [ids EXCEPT ![Walk(trie, entities[i].tokens)] =
                                       Append(@, entities[i].id)]
       /\ (pc = "token" /\ pc' = "for") => ids' # ids

\* C9: every step satisfies C9_Step (processing a repeated token sequence
\* changes nothing but the ids of its terminal node).
C9_StructureIdempotent == [][C9_Step]_vars

C9_Witness ==
    /\ pc = "for"
    /\ i >= 2
    /\ Dup(i)
    /\ Len(entities[i].tokens) >= 2

\* C10: after every insertion the key paths of the nodes are exactly the
\* prefixes of the token sequences processed, every leaf but the root has
\* ids, node_count is the number of nodes, and the finished trie is a
\* function of the multiset of input entities.
C10_ExactlyThePrefixes ==
    /\ node_count = Cardinality(Nodes)
    /\ pc # "token" =>
        /\ NodePaths = {<<>>} \cup
              UNION {Prefixes(Processed[k].tokens) : k \in DOMAIN Processed}
        /\ \A n \in Nodes \ {trie} : DOMAIN children[n] = {} => ids[n] # <<>>
    /\ pc = "done" =>
        \A p \in NodePaths : \A x \in Ids :
            Count(ids[Walk(trie, p)], x) =
                Cardinality({k \in DOMAIN entities :
                               entities[k] = [tokens |-> p, id |-> x]})

C10_Witness ==
    /\ pc = "done"
    /\ node_count >= 3
    /\ \E n \in Nodes : Len(ids[n]) >= 2

\* ------------------------------------------ properties of read_mr_entities
\* the k-th smallest element of the set of numbers S
Kth(S, k) == CHOOSE x \in S : Cardinality({y \in S : y < x}) = k - 1

\* a line without its line ending
Content(line) ==
    IF line # <<>> /\ line[Len(line)] = NL THEN SubSeq(line, 1, Len(line) - 1) ELSE line

TabsOf(s) == {p \in DOMAIN s : s[p] = Tab}

\* the number of tab-separated fields of s, and the k-th of them
NumFields(s) == Cardinality(TabsOf(s)) + 1

FieldOf(s, k) ==
    LET lo == IF k = 1 THEN 0 ELSE Kth(TabsOf(s), k - 1)
        hi == IF k = NumFields(s) THEN Len(s) + 1 ELSE Kth(TabsOf(s), k)
    IN  SubSeq(s, lo + 1, hi - 1)

\* one or more uppercase letters, then a digit, then uppercase letters or digits
AreaCode(name) ==
    \E k \in 1..(Len(name) - 1) :
        /\ \A p \in 1..k : name[p] \in Upper
        /\ name[k + 1] \in Digit
        /\ \A p \in (k + 2)..Len(name) : name[p] \in Upper \cup Digit

\* the maximal runs of non-whitespace characters of s, from left to right
WordStarts(s) ==
    {p \in DOMAIN s : s[p] \notin Whitespace /\ (p = 1 \/ s[p - 1] \in Whitespace)}

WordEnd(s, p) ==
    CHOOSE e \in p..Len(s) :
        /\ \A q \in p..e : s[q] \notin Whitespace
        /\ e = Len(s) \/ s[e + 1] \in Whitespace

Words(s) ==
    [k \in 1..Cardinality(WordStarts(s)) |->
        LET p == Kth(WordStarts(s), k) IN SubSeq(s, p, WordEnd(s, p))]

GeoNameOf(line) == FieldOf(Content(line), 2)
PlaceTypeOf(line) == FieldOf(Content(line), 4)

WellFormed(line) == NumFields(Content(line)) = 4

\* a well-formed line that none of the three rules excludes
Retained(line) ==
    /\ WellFormed(line)
    /\ PlaceTypeOf(line) \notin SKIPPED_PLACE_TYPES
    /\ GeoNameOf(line) \notin SKIPPED_GEO_NAMES
    /\ ~AreaCode(GeoNameOf(line))

EntityOf(line) ==
    [tokens |-> Words(GeoNameOf(line)), id |-> FieldOf(Content(line), 1)]

\* the retained lines among lines 2..n of the file, and their entities in line order
RetainedLines(n) == {m \in 2..n : Retained(f[m])}

Expected(n) ==
    [k \in 1..Cardinality(RetainedLines(n)) |-> EntityOf(f[Kth(RetainedLines(n), k)])]

\* C5: the entities collected are, in line order, one entity (whitespace-split
\* name, identifier field) for each line after the first that has four
\* tab-separated fields and that no rule excludes; the first line yields none,
\* and a line's fate depends on that line alone.
C5_ExactlyTheRetainedLines ==
    /\ pc = "lines" => entities = Expected(pos)
    /\ pc = "read_done" => entities = Expected(Len(f))

C5_Witness ==
    /\ pc = "read_done"
    /\ Len(f) >= 3
    /\ Retained(f[1])
    /\ Len(entities) = 2
    /\ entities[1] # entities[2]
    /\ \A k \in 1..2 : entities[k] # EntityOf(f[1])

\* C6: reading a line whose number of tab-separated fields is not four
\* leaves the entities unchanged and goes on with the next line, and a
\* retained line that comes after such a line still gets its entity appended.
C6_Step ==
    pc = "lines" /\ pos < Len(f) =>
        /\ ~WellFormed(f[pos + 1]) =>
              /\ entities' = entities
              /\ pos' = pos + 1
              /\ pc' = "lines"
        /\ (Retained(f[pos + 1]) /\ \E m \in 2..pos : ~WellFormed(f[m])) =>
              /\ entities' = Append(entities, EntityOf(f[pos + 1]))
              /\ pos' = pos + 1

\* C6: every step satisfies C6_Step (malformed lines yield nothing and do
\* not stop the loop).
C6_MalformedLinesPassedOver == [][C6_Step]_vars

C6_Witness ==
    /\ pc = "read_done"
    /\ \E m, n \in 2..Len(f) :
          /\ m < n
          /\ NumFields(Content(f[m])) > 4
          /\ Retained(f[n])
          /\ entities = <<EntityOf(f[n])>>

\* C7: no entity collected by read_mr_entities has an empty token list.
C7_NoEmptyTokens == \A k \in DOMAIN entities : entities[k].tokens # <<>>

\* a well-formed record is read in this step
ReadsRecord == pc = "lines" /\ pos < Len(f) /\ WellFormed(f[pos + 1])

H2 == <<"H", "2">>
A72M7 == <<"7", "2", "M", "7">>

\* C8 as stated: a record is skipped by the pattern rule exactly when its
\* name is uppercase letters, a digit, then uppercase letters or digits, and
\* records named "H2" and "72M7" are skipped whatever their place type.
C8_Original_Step ==
    ReadsRecord =>
      LET name == GeoNameOf(f[pos + 1])
          place_type == PlaceTypeOf(f[pos + 1]) IN
        /\ (place_type \notin SKIPPED_PLACE_TYPES /\ name \notin SKIPPED_GEO_NAMES) =>
              (entities' = entities <=> AreaCode(name))
        /\ name \in {H2, A72M7} => entities' = entities

\* C8 as stated: every step satisfies C8_Original_Step.
C8_Original == [][C8_Original_Step]_vars

\* C8 amended: a record is skipped by the pattern rule exactly when its name
\* is uppercase letters, a digit, then uppercase letters or digits; "H2" is
\* skipped whatever its place type, "72M7" only when its place type is skipped.
C8_Amended_Step ==
    ReadsRecord =>
      LET name == GeoNameOf(f[pos + 1])
          place_type == PlaceTypeOf(f[pos + 1]) IN
        /\ (place_type \notin SKIPPED_PLACE_TYPES /\ name \notin SKIPPED_GEO_NAMES) =>
              (entities' = entities <=> AreaCode(name))
        /\ name = H2 => entities' = entities
        /\ name = A72M7 =>
              (entities' = entities <=> place_type \in SKIPPED_PLACE_TYPES)

\* C8 amended: every step satisfies C8_Amended_Step.
C8_Amended == [][C8_Amended_Step]_vars

C8_Witness ==
    /\ pc = "read_done"
    /\ \E m, n \in 2..Len(f) :
          /\ WellFormed(f[m]) /\ GeoNameOf(f[m]) = H2
          /\ WellFormed(f[n]) /\ GeoNameOf(f[n]) = A72M7
          /\ PlaceTypeOf(f[n]) \notin SKIPPED_PLACE_TYPES
          /\ entities = <<EntityOf(f[n])>>

====
